---- MODULE Spec2Model ----
(***************************************************************************)
(* dslgen, demo_polars_lark.py: the API reflector (find_object_by_name,    *)
(* _flatten_expr_attribute, build_polars_api_map), the grammar synthesizer *)
(* (generate_lark_grammar) and the parser driver (Lark(grammar,            *)
(* parser="lalr") followed by parser.parse(snippet)).                      *)
(*                                                                         *)
(* Text is modelled at the level of atoms: an atom is a run of characters  *)
(* that the grammar's literals either match whole or not at all            *)
(* ("pl.DataFrame", ".filter", "(", ")", ...); "x" stands for any run of   *)
(* characters holding no parenthesis and starting no literal.              *)
(***************************************************************************)
EXTENDS Integers, Sequences, FiniteSets, TLC

VARIABLES
    pc,             \* position of the run
    api_map,        \* class name -> methods_dict (build_polars_api_map's result)
    grammar,        \* the text generate_lark_grammar returned last
    parser,         \* the Lark parser built from the grammar text
    snippet,        \* the calls of the input string handed to parser.parse so far
    text,           \* the same input as atoms
    pos,            \* the lexer's position in text (1-based)
    tokens,         \* the tokens the parser has shifted
    outcome,        \* "pending", "parsed", "UnexpectedInput" or "GrammarError"
    tree,           \* the member tree load("polars", ...) returned
    target,         \* find_object_by_name's target_name
    stack,          \* find_object_by_name's call stack
    ret,            \* the value a returning call of find_object_by_name hands its caller
    found_objects,  \* build_polars_api_map's found_objects
    expr,           \* a return annotation (subobj.returns)
    returns         \* the normalized return type computed from expr

vars == <<pc, api_map, grammar, parser, snippet, text, pos, tokens,
          outcome, tree, target, stack, ret, found_objects, expr, returns>>

grammarVars == <<grammar, parser, snippet, text, pos, tokens, outcome>>
reflectVars == <<tree, target, stack, ret, found_objects, expr, returns>>

\* ------------------------------------------------------------ bounds
MaxMethods == 2     \* methods discovered per class in an api_map
MaxCalls == 3       \* method calls following the constructor call in a snippet
MaxNodes == 4       \* nodes of a member tree that find_object_by_name searches
MaxValues == 2      \* values of one attribute chain

\* ------------------------------------------------------------ helpers
None == "None"

Range(s) == {s[i] : i \in DOMAIN s}

InSeq(x, s) == \E i \in DOMAIN s : s[i] = x

\* The sequences over S of length at most n that repeat no element.
InjectiveSeqs(S, n) ==
    UNION {{s \in [1..k -> S] : \A i, j \in 1..k : s[i] = s[j] => i = j} : k \in 0..n}

\* Every order in which the elements of a set can be iterated.
Orders(S) == {s \in [1..Cardinality(S) -> S] : \A i, j \in DOMAIN s : s[i] = s[j] => i = j}

IsPrefix(s, t) == Len(s) <= Len(t) /\ \A i \in DOMAIN s : s[i] = t[i]

\* dict.get(key, default)
Get(d, key, default) == IF key \in DOMAIN d THEN d[key] ELSE default

\* The keys of a methods_dict, in insertion order.
Keys(d) == [i \in DOMAIN d |-> d[i].name]

\* str.upper() on the method names of the model.
Upper(m) ==
    CASE m = "select" -> "SELECT"
      [] m = "filter" -> "FILTER"
      [] m = "groupby" -> "GROUPBY"
      [] m = "join" -> "JOIN"
      [] m = "lazy" -> "LAZY"
      [] m = "collect" -> "COLLECT"
      [] m = "head" -> "HEAD"
      [] OTHER -> m

\* ------------------------------------------------------------ grammar text
\* The grammar text is the sequence of its definitions, in the order of the
\* lines.  A terminal is defined by a pattern (a sequence of literals and of
\* the regexp NonParen) or by an alternation of terminal names (refs); a rule
\* by its expansions, each a sequence of symbols with a quantifier.
NonParen == "[^)]*"

Term(name, pattern, refs) ==
    [name |-> name, kind |-> "term", pattern |-> pattern, refs |-> refs, expansions |-> <<>>]

Rule(name, expansions) ==
    [name |-> name, kind |-> "rule", pattern |-> <<>>, refs |-> <<>>, expansions |-> expansions]

One(sym) == [sym |-> sym, q |-> "1"]
Opt(sym) == [sym |-> sym, q |-> "?"]
Plus(sym) == [sym |-> sym, q |-> "+"]

grammar_prelude ==
    << Rule("start", << <<One("polars_expression")>> >>),
       Rule("polars_expression",
            << <<One("dataframe_expression")>>, <<One("lazyframe_expression")>> >>),
       Term("DATAFRAME_CALL", <<"pl.DataFrame", "(", NonParen, ")">>, <<>>),
       Term("LAZYFRAME_CALL", <<".lazy", "(", ")">>, <<>>) >>

grammar_mid ==
    << Rule("dataframe_expression",
            << <<One("DATAFRAME_CALL"), Opt("dataframe_chain")>> >>),
       Rule("lazyframe_expression",
            << <<One("DATAFRAME_CALL"), One("LAZYFRAME_CALL"), Opt("lazyframe_chain")>> >>),
       Rule("dataframe_chain", << <<Plus("DF_METHOD_CALL")>> >>),
       Rule("lazyframe_chain", << <<Plus("LF_METHOD_CALL")>> >>) >>

KnownDfMethodsWithoutSelect == <<"filter", "groupby", "join", "lazy">>

known_df_methods == <<"select", "filter", "groupby", "join", "lazy">>
known_lf_methods == <<"collect", "filter", "select", "groupby">>

df_methods(map) == Get(map, "DataFrame", <<>>)
lf_methods(map) == Get(map, "LazyFrame", <<>>)

dataframe_methods(map) ==
    SelectSeq(Keys(df_methods(map)), LAMBDA m : InSeq(m, known_df_methods))

lazyframe_methods(map) ==
    SelectSeq(Keys(lf_methods(map)), LAMBDA m : InSeq(m, known_lf_methods))

\* for method in set(dataframe_methods + lazyframe_methods): the iteration
\* order of a set of strings follows the strings' hashes, which Python draws
\* anew for each process, so every order of the set is possible.
DuplicatedMethodOrders(map) == {dataframe_methods(map) \o lazyframe_methods(map)}

method_orders(map) ==
    Orders(Range(dataframe_methods(map) \o lazyframe_methods(map)))

\* rule = f'{uppercase_name}: ".{method}" "(" /[^)]*/ ")"'
method_rule(method) == Term(Upper(method), <<"." \o method, "(", NonParen, ")">>, <<>>)

method_rules(order) == [i \in DOMAIN order |-> method_rule(order[i])]

df_method_call_tokens(map) ==
    [i \in DOMAIN dataframe_methods(map) |-> Upper(dataframe_methods(map)[i])]

lf_method_call_tokens(map) ==
    [i \in DOMAIN lazyframe_methods(map) |-> Upper(lazyframe_methods(map)[i])]

NoFallbackDfCallRule(map) == Term("DF_METHOD_CALL", <<>>, df_method_call_tokens(map))

df_call_rule(map) ==
    IF df_method_call_tokens(map) # <<>>
    THEN Term("DF_METHOD_CALL", <<>>, df_method_call_tokens(map))
    ELSE Term("DF_METHOD_CALL", <<"NO_DF_METHODS">>, <<>>)

lf_call_rule(map) ==
    IF lf_method_call_tokens(map) # <<>>
    THEN Term("LF_METHOD_CALL", <<>>, lf_method_call_tokens(map))
    ELSE Term("LF_METHOD_CALL", <<"NO_LF_METHODS">>, <<>>)

\* "\n".join([grammar_prelude, "\n".join(method_rules), grammar_mid,
\*            df_call_rule, lf_call_rule])
grammar_text(map, order) ==
    grammar_prelude \o method_rules(order) \o grammar_mid
        \o <<df_call_rule(map), lf_call_rule(map)>>

\* ------------------------------------------------------------ Lark(grammar, parser="lalr")
DefinedNames(g) == {g[i].name : i \in DOMAIN g}

Definition(g, name) == g[CHOOSE i \in DOMAIN g : g[i].name = name]

IsTerminal(g, name) == \E i \in DOMAIN g : g[i].name = name /\ g[i].kind = "term"

\* The names a definition's right-hand side refers to.
ReferencedNames(d) ==
    Range(d.refs) \cup
    UNION {{d.expansions[e][k].sym : k \in DOMAIN d.expansions[e]} : e \in DOMAIN d.expansions}

\* What Lark's grammar loader refuses with a GrammarError: a name defined
\* twice, a reference to an undefined name, an empty right-hand side.
GrammarLoads(g) ==
    /\ \A i, j \in DOMAIN g : g[i].name = g[j].name => i = j
    /\ \A i \in DOMAIN g : ReferencedNames(g[i]) \subseteq DefinedNames(g)
    /\ \A i \in DOMAIN g : g[i].pattern # <<>> \/ g[i].refs # <<>> \/ g[i].expansions # <<>>

\* A terminal defined by an alternation of terminals is compiled into one
\* regexp, the alternation of their patterns in the order written.
RECURSIVE TerminalPatterns(_, _)
TerminalPatterns(g, name) ==
    LET d == Definition(g, name)
        RECURSIVE Alternatives(_)
        Alternatives(i) ==
            IF i > Len(d.refs) THEN <<>>
            ELSE TerminalPatterns(g, d.refs[i]) \o Alternatives(i + 1)
    IN  IF d.refs = <<>> THEN <<d.pattern>> ELSE Alternatives(1)

\* The terminals the rules use; only these reach the lexer.
UsedTerminals(g) ==
    {n \in UNION {ReferencedNames(g[i]) : i \in {j \in DOMAIN g : g[j].kind = "rule"}} :
        IsTerminal(g, n)}

\* The sentences of at most n terminals that a symbol derives (the grammar has
\* no recursive rule).
RECURSIVE SymbolLanguage(_, _, _), ExpansionLanguage(_, _, _, _), Repeated(_, _)

Repeated(base, n) ==
    LET nonEmpty == {a \in base : 1 <= Len(a) /\ Len(a) <= n}
    IN  nonEmpty \cup
        UNION {{a \o b : b \in Repeated(base, n - Len(a))} : a \in {x \in nonEmpty : Len(x) < n}}

ItemLanguage(g, item, n) ==
    LET base == SymbolLanguage(g, item.sym, n)
    IN  CASE item.q = "1" -> base
          [] item.q = "?" -> base \cup {<<>>}
          [] item.q = "+" -> Repeated(base, n)

ExpansionLanguage(g, e, i, n) ==
    IF i > Len(e) THEN {<<>>}
    ELSE UNION {{a \o b : b \in ExpansionLanguage(g, e, i + 1, n - Len(a))} :
                    a \in ItemLanguage(g, e[i], n)}

SymbolLanguage(g, sym, n) ==
    IF IsTerminal(g, sym)
    THEN IF n >= 1 THEN {<<sym>>} ELSE {}
    ELSE LET d == Definition(g, sym)
         IN  UNION {ExpansionLanguage(g, d.expansions[e], 1, n) : e \in DOMAIN d.expansions}

\* The longest sentence the parser can meet: the constructor call, the
\* make-lazy call, MaxCalls calls, and one more terminal of lookahead.
MaxTokens == MaxCalls + 2

NoParser == [terminals |-> <<>>, sentences |-> {}]

\* The compiled parser: each used terminal's patterns, and the LALR automaton
\* as the language it accepts (a state of the automaton is the sequence of
\* terminals shifted so far).
LarkParser(g) ==
    [terminals |-> [t \in UsedTerminals(g) |-> TerminalPatterns(g, t)],
     sentences |-> SymbolLanguage(g, "start", MaxTokens)]

\* ------------------------------------------------------------ parser.parse(snippet)
TokenTypes(toks) == [i \in DOMAIN toks |-> toks[i].type]

\* The terminals the parser's state accepts: those that extend the terminals
\* shifted so far towards a sentence.
Accepts(p, shifted) ==
    {w[Len(shifted) + 1] : w \in {s \in p.sentences : Len(s) > Len(shifted) /\ IsPrefix(shifted, s)}}

\* re.match of one pattern at position i of txt: the position after the match,
\* or 0 when the pattern does not match there.  [^)]* is greedy, and what
\* follows it in every pattern is ")".
RECURSIVE MatchFrom(_, _, _, _)
MatchFrom(pattern, k, txt, i) ==
    IF k > Len(pattern) THEN i
    ELSE IF pattern[k] = NonParen
         THEN LET stops == {j \in i..Len(txt) : txt[j] = ")"}
                  stop == IF stops = {} THEN Len(txt) + 1
                          ELSE CHOOSE j \in stops : \A j2 \in stops : j <= j2
              IN  MatchFrom(pattern, k + 1, txt, stop)
         ELSE IF i <= Len(txt) /\ txt[i] = pattern[k]
              THEN MatchFrom(pattern, k + 1, txt, i + 1)
              ELSE 0

\* The first alternative of a terminal that matches decides the match.
RECURSIVE FirstMatch(_, _, _, _)
FirstMatch(patterns, a, txt, i) ==
    IF a > Len(patterns) THEN 0
    ELSE IF MatchFrom(patterns[a], 1, txt, i) # 0
         THEN MatchFrom(patterns[a], 1, txt, i)
         ELSE FirstMatch(patterns, a + 1, txt, i)

TerminalMatch(p, t, txt, i) == FirstMatch(p.terminals[t], 1, txt, i)

\* pattern.max_width: unbounded (sre's MAXREPEAT) as soon as one alternative
\* holds [^)]*, else the longest alternative's length in characters.
RECURSIVE PatternChars(_, _)
PatternChars(pattern, k) ==
    IF k > Len(pattern) THEN 0 ELSE Len(pattern[k]) + PatternChars(pattern, k + 1)

Unbounded(patterns) == \E a \in DOMAIN patterns : InSeq(NonParen, patterns[a])

MaxWidth(patterns) ==
    CHOOSE w \in {PatternChars(patterns[a], 1) : a \in DOMAIN patterns} :
        \A a \in DOMAIN patterns : PatternChars(patterns[a], 1) <= w

TerminalNameOrder ==
    <<"DATAFRAME_CALL", "DF_METHOD_CALL", "LAZYFRAME_CALL", "LF_METHOD_CALL">>

NameIndex(t) == CHOOSE i \in DOMAIN TerminalNameOrder : TerminalNameOrder[i] = t

NameFirst(p, t, u) == NameIndex(t) < NameIndex(u)

\* terminals.sort(key=lambda x: (-x.priority, -x.pattern.max_width, ..., x.name)):
\* the lexer tries the terminals in this order and the first that matches wins.
\* No terminal of the grammar states a priority.
TriedBefore(p, t, u) ==
    LET pt == p.terminals[t]
        pu == p.terminals[u]
    IN  IF Unbounded(pt) # Unbounded(pu) THEN Unbounded(pt)
        ELSE IF ~Unbounded(pt) /\ MaxWidth(pt) # MaxWidth(pu) THEN MaxWidth(pt) > MaxWidth(pu)
        ELSE NameFirst(p, t, u)

\* The contextual lexer: among the terminals the parser's state accepts, the
\* first in the lexer's order that matches at i; "" when none matches.
NextTerminal(p, shifted, txt, i) ==
    LET matching == {t \in Accepts(p, shifted) : TerminalMatch(p, t, txt, i) # 0}
    IN  IF matching = {} THEN ""
        ELSE CHOOSE t \in matching : \A u \in matching \ {t} : TriedBefore(p, t, u)

\* ------------------------------------------------------------ member trees
\* A node of the member tree: name, members (in the order of the mapping; the
\* key of a member is its name), is_function, returns.
Node(name, is_function, ann, members) ==
    [name |-> name, is_function |-> is_function, returns |-> ann, members |-> members]

RECURSIVE NodeAt(_, _)
NodeAt(t, path) == IF path = <<>> THEN t ELSE NodeAt(t.members[Head(path)], Tail(path))

\* A node is referred to by its path from the root (the object's identity).
NotFound == [found |-> FALSE, path |-> <<>>]
Found(path) == [found |-> TRUE, path |-> path]

\* A name as the fragments it is made of; the text of a name is their
\* concatenation.
Fragments(name) ==
    CASE name = "DataFrame" -> <<"Data", "Frame">>
      [] name = "LazyFrame" -> <<"Lazy", "Frame">>
      [] name = "PyDataFrame" -> <<"Py", "Data", "Frame">>
      [] OTHER -> <<name>>

\* str.endswith
EndsWith(name, suffix) ==
    LET n == Fragments(name)
        x == Fragments(suffix)
    IN  /\ Len(x) <= Len(n)
        /\ \A i \in DOMAIN x : n[Len(n) - Len(x) + i] = x[i]

NameEquals(node, target_name) == node.name = target_name

\* module.name.endswith(target_name), member.name.endswith(target_name)
name_matches(node, target_name) == EndsWith(node.name, target_name)

\* find_object_by_name(module, target_name), the module given by its path.
RECURSIVE find_object_by_name(_, _, _)
find_object_by_name(t, path, target_name) ==
    LET module == NodeAt(t, path)
        hits == {i \in DOMAIN module.members : name_matches(module.members[i], target_name)}
        RECURSIVE Recurse(_)
        Recurse(i) ==
            IF i > Len(module.members) THEN NotFound
            ELSE LET found == find_object_by_name(t, path \o <<i>>, target_name)
                 IN  IF found.found THEN found ELSE Recurse(i + 1)
    IN  IF name_matches(module, target_name) THEN Found(path)
        ELSE IF hits # {} THEN Found(path \o <<CHOOSE i \in hits : \A j \in hits : i <= j>>)
        ELSE Recurse(1)

\* ------------------------------------------------------------ return annotations
\* A return annotation: ExprName(name), ExprAttribute(values) or another
\* expression node, which str() renders as text.
ExprName(name) == [kind |-> "ExprName", name |-> name, values |-> <<>>]
ExprAttribute(values) == [kind |-> "ExprAttribute", name |-> "", values |-> values]
ExprOther(rendering) == [kind |-> "ExprOther", name |-> rendering, values |-> <<>>]

NoAnnotation == [kind |-> "None", name |-> "", values |-> <<>>]

ShallowFlatten(expr_attr) ==
    [i \in DOMAIN expr_attr.values |-> expr_attr.values[i].name]

\* _flatten_expr_attribute(expr_attr)
RECURSIVE flatten_expr_attribute(_)
flatten_expr_attribute(expr_attr) ==
    LET RECURSIVE Parts(_)
        Parts(i) ==
            IF i > Len(expr_attr.values) THEN <<>>
            ELSE LET val == expr_attr.values[i]
                 IN  (IF val.kind = "ExprName" THEN <<val.name>>
                      ELSE IF val.kind = "ExprAttribute" THEN flatten_expr_attribute(val)
                      ELSE <<val.name>>) \o Parts(i + 1)
    IN  Parts(1)

\* ".".join(chain)
RECURSIVE Join(_)
Join(chain) ==
    IF chain = <<>> THEN ""
    ELSE IF Len(chain) = 1 THEN chain[1]
    ELSE chain[1] \o "." \o Join(Tail(chain))

\* The returns computed for one member from its annotation ann.
normalize(ann) ==
    IF ann.kind = "None" THEN None
    ELSE IF ann.kind = "ExprName" THEN ann.name
    ELSE IF ann.kind = "ExprAttribute" THEN Join(flatten_expr_attribute(ann))
    ELSE ann.name

\* ------------------------------------------------------------ build_polars_api_map
interesting_classes == <<"DataFrame", "LazyFrame", "Expr">>

\* found_objects after the first loop: the classes found, in the order searched.
RECURSIVE FoundObjects(_, _)
FoundObjects(t, i) ==
    IF i > Len(interesting_classes) THEN <<>>
    ELSE LET obj == find_object_by_name(t, <<>>, interesting_classes[i])
         IN  (IF obj.found THEN <<[cls_name |-> interesting_classes[i], obj |-> obj.path]>>
              ELSE <<>>) \o FoundObjects(t, i + 1)

AllMembers(cls_obj) ==
    [i \in DOMAIN cls_obj.members |->
        [name |-> cls_obj.members[i].name, returns |-> normalize(cls_obj.members[i].returns)]]

\* methods_dict for one class: the function-like members, in order.
RECURSIVE MethodsDict(_, _)
MethodsDict(cls_obj, i) ==
    IF i > Len(cls_obj.members) THEN <<>>
    ELSE LET subobj == cls_obj.members[i]
         IN  (IF subobj.is_function
              THEN <<[name |-> subobj.name, returns |-> normalize(subobj.returns)]>>
              ELSE <<>>) \o MethodsDict(cls_obj, i + 1)

methods_dict(cls_obj) == MethodsDict(cls_obj, 1)

ApiMapOf(t, found) ==
    [cls \in {found[i].cls_name : i \in DOMAIN found} |->
        methods_dict(NodeAt(t, (CHOOSE f \in Range(found) : f.cls_name = cls).obj))]

\* ------------------------------------------------------------ inputs
\* The method names an api_map may hold for each class: allow-listed ones and
\* one that is on neither allow-list.
DataFrameNames == {"filter", "select", "lazy", "head"}
LazyFrameNames == {"filter", "select", "collect", "head"}

MethodsDicts(names) ==
    {[i \in DOMAIN s |-> [name |-> s[i], returns |-> None]] : s \in InjectiveSeqs(names, MaxMethods)}

DiscoverableNames(cls) == IF cls = "DataFrame" THEN DataFrameNames ELSE LazyFrameNames

\* Every api_map of the bounds, the empty map and the maps that lack a class
\* included.  generate_lark_grammar reads no other key.
ApiMaps ==
    UNION {{map \in [classes -> MethodsDicts(DataFrameNames \cup LazyFrameNames)] :
                \A cls \in classes : Range(Keys(map[cls])) \subseteq DiscoverableNames(cls)} :
            classes \in SUBSET {"DataFrame", "LazyFrame"}}

\* The same maps with each class's methods in one fixed order of discovery.
DiscoveryOrder == <<"filter", "select", "lazy", "collect", "head">>

InDiscoveryOrder(d) ==
    Keys(d) = SelectSeq(DiscoveryOrder, LAMBDA m : InSeq(m, Keys(d)))

OrderedApiMaps == {map \in ApiMaps : \A cls \in DOMAIN map : InDiscoveryOrder(map[cls])}

\* A snippet is a constructor segment followed by call segments; a segment is
\* the text of one call.
Segment(kind, name, args) == [kind |-> kind, name |-> name, args |-> args]

\* pl.col("x") > 1 as atoms: it holds a ")".
NestedCallArgs == <<"x", "(", "x", ")", "x">>

ArgRuns == {<<>>, <<"x">>}

CallNames == {"filter", "select", "lazy", "collect", "unknown_method"}

HeadSegments ==
    {Segment("ctor", "pl.DataFrame", a) : a \in ArgRuns}
        \cup {Segment("brace", "pl.DataFrame", <<"x">>)}

ChainSegments ==
    {Segment("call", m, a) : m \in CallNames, a \in ArgRuns}
        \cup {Segment("call", "filter", NestedCallArgs)}
        \cup {Segment("raw", "NO_DF_METHODS", <<>>), Segment("raw", "NO_LF_METHODS", <<>>)}

\* The atoms of a segment.
Atoms(seg) ==
    CASE seg.kind = "ctor" -> <<seg.name, "(">> \o seg.args \o <<")">>
      [] seg.kind = "brace" -> <<seg.name, "{">> \o seg.args \o <<"}">>
      [] seg.kind = "call" -> <<"." \o seg.name, "(">> \o seg.args \o <<")">>
      [] seg.kind = "raw" -> <<seg.name>>

NoNode == Node("", FALSE, NoAnnotation, <<>>)

ReflectIdle ==
    /\ tree = NoNode
    /\ target = ""
    /\ stack = <<>>
    /\ ret = NotFound
    /\ found_objects = <<>>
    /\ expr = NoAnnotation
    /\ returns = None

\* ------------------------------------------------------------ the run
Init ==
    /\ pc = "start"
    /\ api_map \in OrderedApiMaps
    /\ grammar = <<>>
    /\ parser = NoParser
    /\ snippet = <<>>
    /\ text = <<>>
    /\ pos = 1
    /\ tokens = <<>>
    /\ outcome = "pending"
    /\ ReflectIdle

\* grammar = generate_lark_grammar(api_map), once per execution of the
\* program; a later execution on the same api_map replaces the text.
generate_lark_grammar ==
    /\ pc \in {"start", "generated"}
    /\ \E order \in method_orders(api_map) : grammar' = grammar_text(api_map, order)
    /\ pc' = "generated"
    /\ UNCHANGED <<api_map, parser, snippet, text, pos, tokens, outcome>>
    /\ UNCHANGED reflectVars

\* parser = Lark(grammar, parser="lalr"); the text is not referenced afterwards.
build_parser ==
    /\ pc = "generated"
    /\ IF GrammarLoads(grammar)
       THEN /\ parser' = LarkParser(grammar)
            /\ pc' = "ready"
            /\ outcome' = outcome
       ELSE /\ parser' = NoParser
            /\ pc' = "done"
            /\ outcome' = "GrammarError"
    /\ grammar' = <<>>
    /\ UNCHANGED <<api_map, snippet, text, pos, tokens>>
    /\ UNCHANGED reflectVars

\* parser.parse(snippet): the lexer is a generator that the parser pulls one
\* token at a time, and a token never reaches past the ")" that ends its call,
\* so the snippet is handed over call by call.
parse ==
    /\ pc = "ready"
    /\ \E seg \in HeadSegments :
        /\ snippet' = <<seg>>
        /\ text' = Atoms(seg)
    /\ pos' = 1
    /\ tokens' = <<>>
    /\ pc' = "lexing"
    /\ UNCHANGED <<api_map, grammar, parser, outcome>>
    /\ UNCHANGED reflectVars

\* One token.  When the lexer has used up the text it was handed, the next call
\* of the snippet follows; otherwise it goes on in the text it has.  The
\* contextual lexer matches at pos and the parser shifts the token; when no
\* accepted terminal matches, parse raises UnexpectedInput (UnexpectedCharacters
\* or UnexpectedToken).
next_token ==
    /\ pc = "lexing"
    /\ \E more \in (IF pos <= Len(text) THEN {<<>>}
                    ELSE IF Len(snippet) <= MaxCalls THEN {<<seg>> : seg \in ChainSegments}
                    ELSE {}) :
        /\ snippet' = snippet \o more
        /\ text' = IF more = <<>> THEN text ELSE text \o Atoms(more[1])
        /\ LET t == NextTerminal(parser, TokenTypes(tokens), text', pos)
           IN  IF t = ""
               THEN /\ outcome' = "UnexpectedInput"
                    /\ pc' = "done"
                    /\ UNCHANGED <<pos, tokens>>
               ELSE /\ tokens' = Append(tokens, [type |-> t, start |-> pos])
                    /\ pos' = TerminalMatch(parser, t, text', pos)
                    /\ UNCHANGED <<pc, outcome>>
    /\ UNCHANGED <<api_map, grammar, parser>>
    /\ UNCHANGED reflectVars

\* The end of the input: the parser takes $END, and returns the tree when the
\* tokens shifted form a sentence.
end_of_input ==
    /\ pc = "lexing"
    /\ pos > Len(text)
    /\ outcome' = IF TokenTypes(tokens) \in parser.sentences THEN "parsed" ELSE "UnexpectedInput"
    /\ pc' = "done"
    /\ UNCHANGED <<api_map, grammar, parser, snippet, text, pos, tokens>>
    /\ UNCHANGED reflectVars

Next ==
    \/ generate_lark_grammar
    \/ build_parser
    \/ parse
    \/ next_token
    \/ end_of_input

Spec == Init /\ [][Next]_vars

\* The grammar text alone, for every order in which the methods of a class can
\* have been discovered.
InitText ==
    /\ pc = "start"
    /\ api_map \in ApiMaps
    /\ grammar = <<>>
    /\ parser = NoParser
    /\ snippet = <<>>
    /\ text = <<>>
    /\ pos = 1
    /\ tokens = <<>>
    /\ outcome = "pending"
    /\ ReflectIdle

NextText ==
    \/ generate_lark_grammar
    \/ build_parser

SpecText == InitText /\ [][NextText]_vars

\* ------------------------------------------------------------ the claims' vocabulary
\* The two allow-lists and the recognized methods of each role, as the
\* specification states them.
BuilderAllowList == {"select", "filter", "groupby", "join", "lazy"}
LazyAllowList == {"collect", "filter", "select", "groupby"}

Discovered(map, cls) == IF cls \in DOMAIN map THEN Range(Keys(map[cls])) ELSE {}

RecognizedBuilder(map) == BuilderAllowList \cap Discovered(map, "DataFrame")
RecognizedLazy(map) == LazyAllowList \cap Discovered(map, "LazyFrame")

\* pl.DataFrame( + a run of non-")" characters + )
IsConstructorCall(seg) == seg.kind = "ctor" /\ ")" \notin Range(seg.args)

\* .m( + a run of non-")" characters + ) for a method m of the given set
IsCallOf(seg, methods) ==
    seg.kind = "call" /\ seg.name \in methods /\ ")" \notin Range(seg.args)

IsMakeLazyCall(seg) == seg.kind = "call" /\ seg.name = "lazy" /\ seg.args = <<>>

IsBuilderExpression(snip, map) ==
    /\ Len(snip) >= 1
    /\ IsConstructorCall(snip[1])
    /\ \A i \in 2..Len(snip) : IsCallOf(snip[i], RecognizedBuilder(map))

IsLazyExpression(snip, map) ==
    /\ Len(snip) >= 2
    /\ IsConstructorCall(snip[1])
    /\ IsMakeLazyCall(snip[2])
    /\ \A i \in 3..Len(snip) : IsCallOf(snip[i], RecognizedLazy(map))

\* The language of section 4.3: a builder-expression or a lazy-expression.
InRecognizedLanguage(snip, map) ==
    IsBuilderExpression(snip, map) \/ IsLazyExpression(snip, map)

FixedTerminals == {"DATAFRAME_CALL", "LAZYFRAME_CALL", "DF_METHOD_CALL", "LF_METHOD_CALL"}

\* The lines of the text that define a per-method terminal.
MethodRuleLines(g) == {i \in DOMAIN g : g[i].kind = "term" /\ g[i].name \notin FixedTerminals}

\* The names an alternation rule lists.
Listed(g, name) == UNION {Range(g[i].refs) : i \in {j \in DOMAIN g : g[j].name = name}}

\* ------------------------------------------------------------ the claims
\* C1: for every api_map, the parser accepts the constructor call followed by
\* zero or more calls of recognized builder methods, each argument list a run
\* of non-")" characters: lexing such an input never raises, and at the end of
\* the input parse returns a tree.
C1_BuilderExpressionParses ==
    IsBuilderExpression(snippet, api_map) =>
        /\ outcome # "UnexpectedInput"
        /\ pc = "done" => outcome = "parsed"

C1_Witness ==
    /\ pc = "done"
    /\ outcome = "parsed"
    /\ IsBuilderExpression(snippet, api_map)
    /\ Len(snippet) = 3
    /\ snippet[1].args = <<"x">>
    /\ snippet[2] = Segment("call", "filter", <<"x">>)
    /\ snippet[3] = Segment("call", "select", <<"x">>)

\* The input pl.DataFrame({"x": [1,2,3]}).lazy().filter(x > 1).select("x")
LazyScenario ==
    << Segment("ctor", "pl.DataFrame", <<"x">>), Segment("call", "lazy", <<>>),
       Segment("call", "filter", <<"x">>), Segment("call", "select", <<"x">>) >>

LazyScenarioTokens ==
    <<"DATAFRAME_CALL", "LAZYFRAME_CALL", "LF_METHOD_CALL", "LF_METHOD_CALL">>

\* C2: whenever filter and select were discovered for LazyFrame, the lazy
\* scenario parses as a lazy-expression, whatever was discovered for
\* DataFrame: parse never raises on it, .lazy() is the make-lazy call and the
\* calls after it are lazy method calls.
C2_LazyScenarioIsLazyExpression ==
    ({"filter", "select"} \subseteq Discovered(api_map, "LazyFrame")
        /\ snippet # <<>> /\ IsPrefix(snippet, LazyScenario)) =>
        /\ outcome # "UnexpectedInput"
        /\ IsPrefix(TokenTypes(tokens), LazyScenarioTokens)

\* C2, where the code agrees: the same with lazy not discovered for DataFrame.
C2_WithoutBuilderLazy ==
    ({"filter", "select"} \subseteq Discovered(api_map, "LazyFrame")
        /\ "lazy" \notin Discovered(api_map, "DataFrame")
        /\ snippet # <<>> /\ IsPrefix(snippet, LazyScenario)) =>
        /\ outcome # "UnexpectedInput"
        /\ IsPrefix(TokenTypes(tokens), LazyScenarioTokens)
        /\ pc = "done" => outcome = "parsed"

\* C3: for every api_map, parse raises UnexpectedInput (never a grammar
\* construction error) on every input that is not in the recognized language.
C3_OutsideLanguageRejected ==
    (pc = "done" /\ ~InRecognizedLanguage(snippet, api_map)) => outcome = "UnexpectedInput"

\* C3, where the code agrees: the same for the inputs that hold no placeholder
\* text (a constructor without its parentheses, a call of a method that is
\* neither a recognized builder method nor the make-lazy call, .collect()
\* directly after the constructor call, ...).
C3_WithoutPlaceholderText ==
    (pc = "done" /\ ~InRecognizedLanguage(snippet, api_map)
        /\ \A i \in DOMAIN snippet : snippet[i].kind # "raw") => outcome = "UnexpectedInput"

\* C4: in the generated text, every name an alternation rule lists is the name
\* of exactly one per-method terminal rule, and the per-method terminal rules
\* are exactly one per recognized method of either role, named by the method
\* name upper-cased and matching ".", the name, "(", a non-")" run and ")".
C4_OneTerminalPerRecognizedMethod ==
    pc = "generated" =>
        LET recognized == RecognizedBuilder(api_map) \cup RecognizedLazy(api_map)
            lines == MethodRuleLines(grammar)
        IN  /\ \A n \in Listed(grammar, "DF_METHOD_CALL") \cup Listed(grammar, "LF_METHOD_CALL") :
                Cardinality({i \in lines : grammar[i].name = n}) = 1
            /\ Listed(grammar, "DF_METHOD_CALL") = {Upper(m) : m \in RecognizedBuilder(api_map)}
            /\ Listed(grammar, "LF_METHOD_CALL") = {Upper(m) : m \in RecognizedLazy(api_map)}
            /\ \A m \in recognized :
                Cardinality({i \in lines : grammar[i].name = Upper(m)}) = 1
            /\ \A i \in lines : \E m \in recognized :
                /\ grammar[i].name = Upper(m)
                /\ grammar[i].pattern = <<"." \o m, "(", NonParen, ")">>

C4_Witness ==
    /\ pc = "generated"
    /\ RecognizedBuilder(api_map) \cap RecognizedLazy(api_map) # {}
    /\ Cardinality(MethodRuleLines(grammar)) >= 3
    /\ Listed(grammar, "DF_METHOD_CALL") # Listed(grammar, "LF_METHOD_CALL")

\* C5: for every api_map the generated text is a structurally valid grammar:
\* both alternation rules are defined with a non-empty right-hand side, every
\* name referenced is defined, no name is defined twice; and building the
\* parser never fails.
C5_GrammarAlwaysValid ==
    /\ pc = "generated" =>
        /\ \A name \in {"DF_METHOD_CALL", "LF_METHOD_CALL"} :
            \E i \in DOMAIN grammar :
                /\ grammar[i].name = name
                /\ grammar[i].pattern # <<>> \/ grammar[i].refs # <<>>
        /\ \A i \in DOMAIN grammar :
            \A n \in ReferencedNames(grammar[i]) : \E j \in DOMAIN grammar : grammar[j].name = n
        /\ \A i, j \in DOMAIN grammar : i # j => grammar[i].name # grammar[j].name
    /\ outcome # "GrammarError"
    /\ pc = "ready" => parser # NoParser

C5_Witness ==
    /\ pc = "ready"
    /\ RecognizedBuilder(api_map) = {}
    /\ RecognizedLazy(api_map) = {}
    /\ "LazyFrame" \notin DOMAIN api_map
    /\ parser # NoParser

\* C6: when a role has zero recognized methods, no input is accepted with a
\* non-empty chain for that role: nothing after the constructor call (after
\* .lazy() for the lazy role) is matched by the placeholder rule.
C6_PlaceholderMatchesNothing ==
    (pc = "done" /\ outcome = "parsed") =>
        /\ RecognizedBuilder(api_map) = {} => "DF_METHOD_CALL" \notin Range(TokenTypes(tokens))
        /\ RecognizedLazy(api_map) = {} => "LF_METHOD_CALL" \notin Range(TokenTypes(tokens))

\* C7: for a fixed api_map, an execution of generate_lark_grammar returns the
\* text the execution before it returned.
C7_SameTextOnEveryRun ==
    [][(pc = "generated" /\ pc' = "generated") => grammar' = grammar]_vars

\* ------------------------------------------------------------ find_object_by_name, step by step
SearchNames == {"polars", "frame", "DataFrame", "PyDataFrame"}

\* The member trees of n nodes; the members of a node have distinct names, as
\* the keys of a mapping do.
RECURSIVE TreesOfSize(_), ForestsOfSize(_)

ForestsOfSize(m) ==
    IF m = 0 THEN {<<>>}
    ELSE UNION {UNION {{<<t>> \o f : f \in {g \in ForestsOfSize(m - k) :
                                                \A i \in DOMAIN g : g[i].name # t.name}} :
                        t \in TreesOfSize(k)} :
                k \in 1..m}

TreesOfSize(n) ==
    {Node(name, FALSE, NoAnnotation, f) : name \in SearchNames, f \in ForestsOfSize(n - 1)}

SearchTrees == UNION {TreesOfSize(n) : n \in 1..MaxNodes}

Frame(path, phase, i) == [path |-> path, phase |-> phase, i |-> i]

Top == stack[Len(stack)]

Module == NodeAt(tree, Top.path)

SetTop(frame) == [stack EXCEPT ![Len(stack)] = frame]

\* return value: the call's frame is popped and the value handed to the caller,
\* or to the program when the outermost call returns.
Return(value) ==
    /\ stack' = SubSeq(stack, 1, Len(stack) - 1)
    /\ ret' = value
    /\ pc' = IF Len(stack) = 1 THEN "returned" ELSE pc

InitSearch ==
    /\ pc = "searching"
    /\ tree \in SearchTrees
    /\ target \in Range(interesting_classes)
    /\ stack = <<Frame(<<>>, "self", 0)>>
    /\ ret = NotFound
    /\ api_map = <<>>
    /\ found_objects = <<>>
    /\ expr = NoAnnotation
    /\ returns = None
    /\ grammar = <<>>
    /\ parser = NoParser
    /\ snippet = <<>>
    /\ text = <<>>
    /\ pos = 1
    /\ tokens = <<>>
    /\ outcome = "pending"

searchFrame == <<api_map, found_objects, expr, returns, tree, target>>

\* if module.name.endswith(target_name): return module
check_self ==
    /\ pc = "searching"
    /\ stack # <<>>
    /\ Top.phase = "self"
    /\ IF name_matches(Module, target)
       THEN Return(Found(Top.path))
       ELSE /\ stack' = SetTop(Frame(Top.path, "members", 1))
            /\ UNCHANGED <<pc, ret>>
    /\ UNCHANGED searchFrame
    /\ UNCHANGED grammarVars

\* for member in module.members.values(): if member.name.endswith(...): return member
check_member ==
    /\ pc = "searching"
    /\ stack # <<>>
    /\ Top.phase = "members"
    /\ IF Top.i > Len(Module.members)
       THEN /\ stack' = SetTop(Frame(Top.path, "recurse", 1))
            /\ UNCHANGED <<pc, ret>>
       ELSE IF name_matches(Module.members[Top.i], target)
            THEN Return(Found(Top.path \o <<Top.i>>))
            ELSE /\ stack' = SetTop(Frame(Top.path, "members", Top.i + 1))
                 /\ UNCHANGED <<pc, ret>>
    /\ UNCHANGED searchFrame
    /\ UNCHANGED grammarVars

\* for member in module.members.values(): found = find_object_by_name(member, ...);
\* after the loop: return None
recurse ==
    /\ pc = "searching"
    /\ stack # <<>>
    /\ Top.phase = "recurse"
    /\ IF Top.i > Len(Module.members)
       THEN Return(NotFound)
       ELSE /\ stack' = Append(SetTop(Frame(Top.path, "waiting", Top.i)),
                               Frame(Top.path \o <<Top.i>>, "self", 0))
            /\ UNCHANGED <<pc, ret>>
    /\ UNCHANGED searchFrame
    /\ UNCHANGED grammarVars

\* if found is not None: return found
resume ==
    /\ pc = "searching"
    /\ stack # <<>>
    /\ Top.phase = "waiting"
    /\ IF ret.found
       THEN Return(ret)
       ELSE /\ stack' = SetTop(Frame(Top.path, "recurse", Top.i + 1))
            /\ UNCHANGED <<pc, ret>>
    /\ UNCHANGED searchFrame
    /\ UNCHANGED grammarVars

NextSearch ==
    \/ check_self
    \/ check_member
    \/ recurse
    \/ resume

SpecSearch == InitSearch /\ [][NextSearch]_vars

\* The interpreter runs the call without pause: a step that can be taken is taken.
SpecSearchFair == SpecSearch /\ WF_vars(NextSearch)

\* ------------------------------------------------------------ build_polars_api_map, run
\* The members a class may hold: methods annotated with a name, an attribute
\* chain, another expression, or not at all, and an attribute that is no
\* function.
MemberPool ==
    { Node("filter", TRUE, ExprName("DataFrame"), <<>>),
      Node("lazy", TRUE, ExprAttribute(<<ExprName("pl"), ExprName("LazyFrame")>>), <<>>),
      Node("select", TRUE, ExprOther("list[DataFrame]"), <<>>),
      Node("head", TRUE, NoAnnotation, <<>>),
      Node("width", FALSE, NoAnnotation, <<>>) }

ClassNodes ==
    {Node(cls, FALSE, NoAnnotation, ms) :
        cls \in {"DataFrame", "LazyFrame"}, ms \in InjectiveSeqs(MemberPool, MaxMethods)}

\* The module polars with its classes, each present or not, in either order.
ApiTrees ==
    {Node("polars", FALSE, NoAnnotation, cs) :
        cs \in {s \in InjectiveSeqs(ClassNodes, Cardinality({c.name : c \in ClassNodes})) :
                    \A i, j \in DOMAIN s : s[i].name = s[j].name => i = j}}

InitReflect ==
    /\ pc = "loaded"
    /\ tree \in ApiTrees
    /\ target = ""
    /\ stack = <<>>
    /\ ret = NotFound
    /\ api_map = <<>>
    /\ found_objects = <<>>
    /\ expr = NoAnnotation
    /\ returns = None
    /\ grammar = <<>>
    /\ parser = NoParser
    /\ snippet = <<>>
    /\ text = <<>>
    /\ pos = 1
    /\ tokens = <<>>
    /\ outcome = "pending"

\* for cls_name in interesting_classes: obj = find_object_by_name(...)
find_interesting_classes ==
    /\ pc = "loaded"
    /\ found_objects' = FoundObjects(tree, 1)
    /\ pc' = "found"
    /\ UNCHANGED <<api_map, tree, target, stack, ret, expr, returns>>
    /\ UNCHANGED grammarVars

\* for cls_name, cls_obj in found_objects.items(): ... return api_map
build_polars_api_map ==
    /\ pc = "found"
    /\ api_map' = ApiMapOf(tree, found_objects)
    /\ pc' = "built"
    /\ UNCHANGED <<found_objects, tree, target, stack, ret, expr, returns>>
    /\ UNCHANGED grammarVars

NextReflect ==
    \/ find_interesting_classes
    \/ build_polars_api_map

SpecReflect == InitReflect /\ [][NextReflect]_vars

\* ------------------------------------------------------------ the normalizer, run
AnnotationLeaves == {ExprName("pl"), ExprName("DataFrame"), ExprOther("List[int]")}

\* The attribute chains over a set of values: griffe builds a chain from
\* a.b, so a chain holds at least two values.
ChainsOver(values) == UNION {{ExprAttribute(v) : v \in [1..k -> values]} : k \in 2..MaxValues}

\* The chains of names and other expressions, as a.b.c is.
FlatChains == ChainsOver(AnnotationLeaves)

\* The values a chain may hold: a leaf, or a chain in its turn.
ChainValues == AnnotationLeaves \cup FlatChains

\* The annotation made of the values v: a single value stands for itself,
\* several make a chain.
AnnotationOf(v) == IF Len(v) = 1 THEN v[1] ELSE ExprAttribute(v)

InitNormalize ==
    /\ pc = "annotated"
    /\ \E k \in 1..MaxValues : \E v \in [1..k -> ChainValues] : expr = AnnotationOf(v)
    /\ returns = None
    /\ tree = NoNode
    /\ target = ""
    /\ stack = <<>>
    /\ ret = NotFound
    /\ api_map = <<>>
    /\ found_objects = <<>>
    /\ grammar = <<>>
    /\ parser = NoParser
    /\ snippet = <<>>
    /\ text = <<>>
    /\ pos = 1
    /\ tokens = <<>>
    /\ outcome = "pending"

\* ann = subobj.returns; ...; methods_dict[subname] = returns
normalize_returns ==
    /\ pc = "annotated"
    /\ returns' = normalize(expr)
    /\ pc' = "normalized"
    /\ UNCHANGED <<api_map, found_objects, tree, target, stack, ret, expr>>
    /\ UNCHANGED grammarVars

NextNormalize == normalize_returns

SpecNormalize == InitNormalize /\ [][NextNormalize]_vars

\* ------------------------------------------------------------ the claims on the reflector
\* The order the search is described to visit the nodes below path: the node
\* itself, its immediate children in order, then the same order below each
\* child in turn.
RECURSIVE ClaimOrder(_, _)
ClaimOrder(t, path) ==
    LET members == NodeAt(t, path).members
        RECURSIVE Below(_)
        Below(i) == IF i > Len(members) THEN <<>>
                    ELSE ClaimOrder(t, path \o <<i>>) \o Below(i + 1)
    IN  <<path>> \o [i \in DOMAIN members |-> path \o <<i>>] \o Below(1)

\* The positions of ClaimOrder whose node has a name ending with target_name.
Matches(t, target_name) ==
    LET order == ClaimOrder(t, <<>>)
    IN  {k \in DOMAIN order : EndsWith(NodeAt(t, order[k]).name, target_name)}

FirstMatchPath(t, target_name) ==
    LET hits == Matches(t, target_name)
    IN  ClaimOrder(t, <<>>)[CHOOSE k \in hits : \A j \in hits : k <= j]

\* C8: build_polars_api_map returns a map whose keys are exactly the requested
\* class names for which the search found a node (a class without a match is
\* left out, no error); for each key the method map holds exactly the
\* function-like immediate children of the found node, each once, mapped to
\* its normalized return type, or to None when no return type is declared.
C8_ApiMapReflectsFoundClasses ==
    pc = "built" =>
        /\ DOMAIN api_map = {cls \in Range(interesting_classes) : Matches(tree, cls) # {}}
        /\ \A cls \in DOMAIN api_map :
              LET node == NodeAt(tree, FirstMatchPath(tree, cls))
                  fns == {i \in DOMAIN node.members : node.members[i].is_function}
                  dict == api_map[cls]
              IN  /\ {dict[k].name : k \in DOMAIN dict} = {node.members[i].name : i \in fns}
                  /\ Len(dict) = Cardinality(fns)
                  /\ \A i \in fns : \E k \in DOMAIN dict :
                        /\ dict[k].name = node.members[i].name
                        /\ dict[k].returns =
                              (IF node.members[i].returns = NoAnnotation THEN None
                               ELSE normalize(node.members[i].returns))

\* A map built from a tree without LazyFrame, whose DataFrame holds an
\* attribute that is no function and a method annotated with a chain.
C8_Witness ==
    /\ pc = "built"
    /\ DOMAIN api_map = {"DataFrame"}
    /\ \E i \in DOMAIN tree.members :
          /\ tree.members[i].name = "DataFrame"
          /\ \E j \in DOMAIN tree.members[i].members : ~tree.members[i].members[j].is_function
    /\ \E k \in DOMAIN api_map["DataFrame"] : api_map["DataFrame"][k].returns = "pl.LazyFrame"

C9_ResultIsFirstMatch ==
    pc = "returned" =>
        IF Matches(tree, target) = {} THEN ret = NotFound
        ELSE ret = Found(FirstMatchPath(tree, target))

RECURSIVE ClaimFragments(_)
ClaimFragments(e) ==
    LET RECURSIVE From(_)
        From(i) == IF i > Len(e.values) THEN <<>>
                   ELSE ClaimFragments(e.values[i]) \o From(i + 1)
    IN  IF e.kind = "ExprAttribute" THEN From(1) ELSE <<e.name>>

PlainNames == {e.name : e \in {l \in AnnotationLeaves : l.kind = "ExprName"}}

OpaqueRenderings == {e.name : e \in {l \in AnnotationLeaves : l.kind = "ExprOther"}}

\* Whether a chain holds, at any depth, an element that is neither a plain name
\* nor a chain.
RECURSIVE HoldsOtherKind(_)
HoldsOtherKind(e) ==
    IF e.kind = "ExprAttribute" THEN \E i \in DOMAIN e.values : HoldsOtherKind(e.values[i])
    ELSE e.kind = "ExprOther"

\* C10 as stated: normalizing an attribute chain yields the "."-join of its
\* fragments taken depth-first, left-to-right, outermost-first, and the
\* flattened sequence of a chain is always a non-empty sequence of plain names.
C10_FlattenedIsPlainNames ==
    (pc = "normalized" /\ expr.kind = "ExprAttribute") =>
        LET chain == flatten_expr_attribute(expr)
        IN  /\ chain = ClaimFragments(expr)
            /\ returns = Join(ClaimFragments(expr))
            /\ chain # <<>>
            /\ \A i \in DOMAIN chain : chain[i] \in PlainNames

\* C10, amended: normalizing an attribute chain yields the "."-join of its
\* fragments taken depth-first, left-to-right, outermost-first; the flattened
\* sequence is non-empty, each fragment is a plain name or the opaque string of
\* an element of another kind, and all are plain names when the chain holds no
\* element of another kind.
C10_FlattenedIsNamesOrOpaque ==
    (pc = "normalized" /\ expr.kind = "ExprAttribute") =>
        LET chain == flatten_expr_attribute(expr)
        IN  /\ chain = ClaimFragments(expr)
            /\ returns = Join(ClaimFragments(expr))
            /\ chain # <<>>
            /\ \A i \in DOMAIN chain : chain[i] \in PlainNames \cup OpaqueRenderings
            /\ ~HoldsOtherKind(expr) => \A i \in DOMAIN chain : chain[i] \in PlainNames

\* A normalized chain that holds a nested chain with an element of another kind.
C10_Witness ==
    /\ pc = "normalized"
    /\ expr.kind = "ExprAttribute"
    /\ \E i \in DOMAIN expr.values :
          /\ expr.values[i].kind = "ExprAttribute"
          /\ HoldsOtherKind(expr.values[i])
    /\ returns = "pl.DataFrame.List[int]"

====
